---- MODULE Spec2Model ----
(***************************************************************************)
(* A model of generate.py, the FHIR profile compiler: parse() walks the    *)
(* profile documents, process_profile() compiles each profile's elements   *)
(* into classes and properties (parse_elem, process_elem_type), computes   *)
(* the import list and the search parameters, parse() registers the        *)
(* classes, process_search() merges the search parameters and              *)
(* process_unittest() matches example documents against the registry.      *)
(*                                                                         *)
(* Text is modelled as a sequence of one-character strings, so that the    *)
(* string operations of the code (split, replace, upper-casing, ordering)  *)
(* are computed and not assumed.  Python's None is the value None; an      *)
(* optional dictionary is a sequence of length 0 or 1.  The documentation  *)
(* texts (short, formal) are carried by no decision of the code and are    *)
(* left out of the records.                                                *)
(***************************************************************************)
EXTENDS Integers, Sequences, FiniteSets, TLC

None == <<"None">>

\* ------------------------------------------------------------------ text

\* The characters the model's texts use, in code point order.
Ascii ==
    << "\n", "*", "-", ".", "/",
       "0", "1", "2", "3", "4", "5", "6", "7", "8", "9", ":",
       "A", "B", "C", "D", "E", "F", "G", "H", "I", "J", "K", "L", "M",
       "N", "O", "P", "Q", "R", "S", "T", "U", "V", "W", "X", "Y", "Z",
       "[", "\\", "]", "_",
       "a", "b", "c", "d", "e", "f", "g", "h", "i", "j", "k", "l", "m",
       "n", "o", "p", "q", "r", "s", "t", "u", "v", "w", "x", "y", "z",
       "|" >>

OrdTable ==
    [c \in {Ascii[i] : i \in 1..Len(Ascii)} |->
        CHOOSE i \in 1..Len(Ascii) : Ascii[i] = c]

\* ord(c), up to the order of the code points
Ord(c) == OrdTable[c]

IsUpper(c) == Ord(c) >= Ord("A") /\ Ord(c) <= Ord("Z")
IsLower(c) == Ord(c) >= Ord("a") /\ Ord(c) <= Ord("z")
IsDigit(c) == Ord(c) >= Ord("0") /\ Ord(c) <= Ord("9")

\* str.upper() on one character
Upper(c) == IF IsLower(c) THEN Ascii[Ord("A") + (Ord(c) - Ord("a"))] ELSE c

\* '{}{}'.format(s[:1].upper(), s[1:])
Capitalize(s) == IF s = <<>> THEN <<>> ELSE <<Upper(s[1])>> \o Tail(s)

\* Python's ordering of str: by code point, a proper prefix first.
RECURSIVE StrLess(_, _)
StrLess(a, b) ==
    IF b = <<>> THEN FALSE
    ELSE IF a = <<>> THEN TRUE
    ELSE IF a[1] = b[1] THEN StrLess(Tail(a), Tail(b))
    ELSE Ord(a[1]) < Ord(b[1])

StartsWith(s, p) == Len(s) >= Len(p) /\ SubSeq(s, 1, Len(p)) = p

\* old in s
RECURSIVE Contains(_, _)
Contains(s, old) ==
    IF StartsWith(s, old) THEN TRUE
    ELSE IF s = <<>> THEN FALSE
    ELSE Contains(Tail(s), old)

\* s.replace(old, new), old not empty: left to right, not overlapping
RECURSIVE Replace(_, _, _)
Replace(s, old, new) ==
    IF s = <<>> THEN <<>>
    ELSE IF StartsWith(s, old)
         THEN new \o Replace(SubSeq(s, Len(old) + 1, Len(s)), old, new)
         ELSE <<s[1]>> \o Replace(Tail(s), old, new)

\* s.split(sep), sep one character: the list of the parts
RECURSIVE Split(_, _)
Split(s, sep) ==
    IF s = <<>> THEN << <<>> >>
    ELSE LET rest == Split(Tail(s), sep)
         IN  IF s[1] = sep THEN << <<>> >> \o rest
             ELSE << <<s[1]>> \o rest[1] >> \o Tail(rest)

\* sep.join(parts)
RECURSIVE Join(_, _)
Join(parts, sep) ==
    IF parts = <<>> THEN <<>>
    ELSE IF Len(parts) = 1 THEN parts[1]
    ELSE parts[1] \o sep \o Join(Tail(parts), sep)

\* ''.join(parts)
RECURSIVE Concat(_)
Concat(parts) == IF parts = <<>> THEN <<>> ELSE parts[1] \o Concat(Tail(parts))

\* dict.get(key, default) on a dictionary kept as a function
Get(dict, key, default) == IF key \in DOMAIN dict THEN dict[key] ELSE default

\* a dictionary with one entry added or replaced: dict[key] = value
Put(dict, key, value) ==
    [x \in (DOMAIN dict) \cup {key} |-> IF x = key THEN value ELSE dict[x]]

EmptyDict == [x \in {} |-> None]

\* ------------------------------------------------- settings (type tables)

Wildcard == <<"*">>
Placeholder == <<"[", "x", "]">>
ResourceReference ==
    <<"R","e","s","o","u","r","c","e","R","e","f","e","r","e","n","c","e">>
ResourceAlias == <<"R","e","s","o","u","r","c","e">>
ProfilePrefix ==
    <<"h","t","t","p",":","/","/","h","l","7",".","o","r","g","/",
      "f","h","i","r","/","p","r","o","f","i","l","e","s","/">>

TString == <<"s","t","r","i","n","g">>
CString == <<"S","t","r","i","n","g">>
TCoding == <<"C","o","d","i","n","g">>
CBase == <<"F","H","I","R","E","l","e","m","e","n","t">>
CResource == <<"F","H","I","R","R","e","s","o","u","r","c","e">>
CDict == <<"D","i","c","t">>

classmap == (TString :> CString) @@ (ResourceAlias :> CResource)
natives == {CString}
jsonmap == (CString :> CString)
jsonmap_default == CDict
reservedmap == (<<"f","o","r">> :> <<"f","o","r","_">>)
starexpandtypes == <<TString, TCoding>>
resource_default_base == CBase

skip_properties ==
    { <<"e","x","t","e","n","s","i","o","n">>,
      <<"m","o","d","i","f","i","e","r","E","x","t","e","n","s","i","o","n">>,
      <<"l","a","n","g","u","a","g","e">>,
      <<"c","o","n","t","a","i","n","e","d">> }

\* ------------------------------------------------------ element compiler

\* sorted(properties, key=name): a stable insertion sort
RECURSIVE InsertByName(_, _)
InsertByName(sorted, prop) ==
    IF sorted = <<>> THEN <<prop>>
    ELSE IF StrLess(prop.name, sorted[1].name) THEN <<prop>> \o sorted
    ELSE <<sorted[1]>> \o InsertByName(Tail(sorted), prop)

RECURSIVE SortByName(_)
SortByName(props) ==
    IF props = <<>> THEN <<>>
    ELSE InsertByName(SortByName(SubSeq(props, 1, Len(props) - 1)),
                      props[Len(props)])

\* choice_name without the alias of the reference type
choice_name_noalias(name, tp) ==
    IF Contains(name, Placeholder)
    THEN Replace(name, Placeholder, Capitalize(tp))
    ELSE name

\* the name of a choice element for one type (lines 354-359)
choice_name(name, tp) ==
    IF Contains(name, Placeholder)
    THEN LET kl == IF tp = ResourceReference THEN ResourceAlias ELSE tp
         IN  Replace(name, Placeholder, Capitalize(kl))
    ELSE name

\* the reference target of a type (lines 362-364)
resolve_ref(ref) ==
    IF ref = None THEN None
    ELSE LET r == Replace(ref, ProfilePrefix, <<>>) IN Get(classmap, r, r)

\* the property dictionary of one type (lines 366-378)
describe_property(name, tp, ref, n_min, n_max) ==
    LET nm == choice_name(name, tp)
        mappedClass == Get(classmap, tp, tp)
    IN  [ name |-> Get(reservedmap, nm, nm),
          orig_name |-> nm,
          className |-> mappedClass,
          jsonClass |-> Get(jsonmap, mappedClass, jsonmap_default),
          isArray |-> (n_max = <<"*">>),
          isReferenceTo |-> resolve_ref(ref),
          nonoptional |-> (n_min # 0),
          isNative |-> (mappedClass \in natives) ]

\* klass['properties'].append(prop) and the flag (lines 380-382)
append_property(klass, prop) ==
    [klass EXCEPT !.properties = Append(@, prop),
                  !.hasNonoptional = @ \/ prop.nonoptional]

\* the wildcard loop of process_elem_type over exp (lines 350-351)
RECURSIVE expand_wildcard(_, _, _, _, _, _)

\* process_elem_type without the return that ends the wildcard branch: the
\* wildcard falls through and is described as a property too
process_elem_type_fallthrough(klass, name, tp, ref, n_min, n_max) ==
    append_property(
        IF tp = Wildcard
        THEN expand_wildcard(klass, name, starexpandtypes, ref, n_min, n_max)
        ELSE klass,
        describe_property(name, tp, ref, n_min, n_max))

\* process_elem_type: the class with the properties of one type appended
process_elem_type(klass, name, tp, ref, n_min, n_max) ==
    IF tp = Wildcard
    THEN expand_wildcard(klass, name, starexpandtypes, ref, n_min, n_max)
    ELSE append_property(klass, describe_property(name, tp, ref, n_min, n_max))

expand_wildcard(klass, name, exp, ref, n_min, n_max) ==
    IF exp = <<>> THEN klass
    ELSE expand_wildcard(
             process_elem_type(klass, name, exp[1], ref, n_min, n_max),
             name, Tail(exp), ref, n_min, n_max)

\* the declared types without a repeated code (lines 308-314)
RECURSIVE dedup_types(_, _)
dedup_types(types, haz) ==
    IF types = <<>> THEN <<>>
    ELSE IF types[1].code \in haz THEN dedup_types(Tail(types), haz)
    ELSE <<types[1]>> \o dedup_types(Tail(types), haz \cup {types[1].code})

\* the name of an inline class: every path segment capitalized (line 319)
RECURSIVE capitalize_all(_)
capitalize_all(parts) ==
    IF parts = <<>> THEN <<>>
    ELSE <<Capitalize(parts[1])>> \o capitalize_all(Tail(parts))

class_name(path) == Concat(capitalize_all(Split(path, ".")))

\* the new class dictionary (lines 320-328)
new_class(path, types) ==
    [ path |-> path,
      className |-> class_name(path),
      superclass |-> IF Len(types) > 0
                     THEN Get(classmap, types[1].code, resource_default_base)
                     ELSE resource_default_base,
      properties |-> <<>>,
      hasNonoptional |-> FALSE,
      is_subclass |-> FALSE,
      resourceName |-> None ]

\* the loop over the types of one element (lines 335-336)
RECURSIVE add_types(_, _, _, _, _)
add_types(klass, name, types, n_min, n_max) ==
    IF types = <<>> THEN klass
    ELSE add_types(
             process_elem_type(klass, name, types[1].code, types[1].profile,
                               n_min, n_max),
             name, Tail(types), n_min, n_max)

\* sort_properties that leaves the properties in the order of declaration
sort_properties_declared(klass) == klass

\* sort properties by name (lines 339-340)
sort_properties(klass) ==
    IF Len(klass.properties) > 0
    THEN [klass EXCEPT !.properties = SortByName(@)]
    ELSE klass

\* parse_elem that creates a class only when there is no owning class
parse_elem_owned(path, name, definition, klass) ==
    LET declared == dedup_types(definition.types, {})
    IN  [ klass |-> IF klass = <<>> THEN <<>>
                    ELSE <<sort_properties(
                             add_types(klass[1], name, declared,
                                       definition.n_min, definition.n_max))>>,
          newklass |-> IF klass = <<>> THEN <<new_class(path, declared)>>
                       ELSE <<>> ]

\* parse_elem: klass is the owning class (a sequence of length 0 or 1); the
\* result is the owning class as the call leaves it and the returned class.
parse_elem(path, name, definition, klass) ==
    LET declared == dedup_types(definition.types, {})
        inline == klass = <<>> \/ Len(declared) = 0
        newklass == IF inline THEN <<new_class(path, declared)>> ELSE <<>>
        types == IF inline /\ Len(declared) = 0
                 THEN <<[code |-> class_name(path), profile |-> None]>>
                 ELSE declared
    IN  [ klass |-> IF klass = <<>> THEN <<>>
                    ELSE <<sort_properties(
                             add_types(klass[1], name, types,
                                       definition.n_min, definition.n_max))>>,
          newklass |-> newklass ]

\* --------------------------------------------------------- profile compiler

\* elem_path.split('.') and the class path and name of it (lines 195-197)
class_path(elem_path) ==
    LET parts == Split(elem_path, ".")
    IN  IF Len(parts) > 1
        THEN Join(SubSeq(parts, 1, Len(parts) - 1), <<".">>)
        ELSE parts[1]

elem_name(elem_path) ==
    LET parts == Split(elem_path, ".") IN parts[Len(parts)]

\* the named subclass: the new class renamed (lines 224-226)
as_subclass(klass, main, superclass) ==
    [klass EXCEPT !.className = main,
                  !.superclass = superclass,
                  !.is_subclass = TRUE]

\* the names one class refers to, in the order the loop meets them
\* (lines 239-256): the superclass, then per property its class and its
\* reference target.
RECURSIVE property_refs(_)
property_refs(props) ==
    IF props = <<>> THEN <<>>
    ELSE <<props[1].className>>
         \o (IF props[1].isReferenceTo # None
             THEN <<props[1].isReferenceTo>> ELSE <<>>)
         \o property_refs(Tail(props))

RECURSIVE referenced_names(_)
referenced_names(classes) ==
    IF classes = <<>> THEN <<>>
    ELSE (IF classes[1].superclass # None
          THEN <<classes[1].superclass>> ELSE <<>>)
         \o property_refs(classes[1].properties)
         \o referenced_names(Tail(classes))

\* collect_imports with the names set never filled: a name met twice is
\* imported twice
RECURSIVE collect_imports_repeated(_, _, _)
collect_imports_repeated(refs, names, inline) ==
    IF refs = <<>> THEN <<>>
    ELSE (IF refs[1] \notin natives /\ refs[1] \notin inline
          THEN <<refs[1]>> ELSE <<>>)
         \o collect_imports_repeated(Tail(refs), names, inline)

\* the import candidates kept: first occurrence, not native, not inline
\* (the guards of lines 240-243, 247-250, 253-256)
RECURSIVE collect_imports(_, _, _)
collect_imports(refs, names, inline) ==
    IF refs = <<>> THEN <<>>
    ELSE IF refs[1] \in names THEN collect_imports(Tail(refs), names, inline)
    ELSE (IF refs[1] \notin natives /\ refs[1] \notin inline
          THEN <<refs[1]>> ELSE <<>>)
         \o collect_imports(Tail(refs), names \cup {refs[1]}, inline)

\* sorted(list of str)
RECURSIVE InsertStr(_, _)
InsertStr(sorted, s) ==
    IF sorted = <<>> THEN <<s>>
    ELSE IF StrLess(s, sorted[1]) THEN <<s>> \o sorted
    ELSE <<sorted[1]>> \o InsertStr(Tail(sorted), s)

RECURSIVE SortStrs(_)
SortStrs(strs) ==
    IF strs = <<>> THEN <<>>
    ELSE InsertStr(SortStrs(SubSeq(strs, 1, Len(strs) - 1)), strs[Len(strs)])

\* info['imports'] of a profile's classes (lines 232-258)
resolve_imports(classes) ==
    LET inline == {classes[i].className : i \in 1..Len(classes)}
    IN  SortStrs(collect_imports(referenced_names(classes), {}, inline))

\* register with the membership test lost: the last registration wins
register_overwrite(registry, klass) == Put(registry, klass.className, klass)

\* the registration of one class by parse (lines 104-109)
register(registry, klass) ==
    IF klass.className \in DOMAIN registry THEN registry
    ELSE Put(registry, klass.className, klass)

\* the registration loop of parse over a profile's classes (line 103)
RECURSIVE register_all(_, _)
register_all(registry, classes) ==
    IF classes = <<>> THEN registry
    ELSE register_all(register(registry, classes[1]), Tail(classes))

\* ------------------------------------------------------ search parameters

\* re.sub(r'[^\w\d\-]', '', name): the word characters and '-' are kept
IsNameChar(c) == IsUpper(c) \/ IsLower(c) \/ IsDigit(c) \/ c = "_" \/ c = "-"

RECURSIVE strip_name(_)
strip_name(name) ==
    IF name = <<>> THEN <<>>
    ELSE (IF IsNameChar(name[1]) THEN <<name[1]>> ELSE <<>>)
         \o strip_name(Tail(name))

search_generate_camelcase == TRUE

\* _camelCase(string, '-') (lines 573-589): n[0] of an empty part raises
\* IndexError, returned here as ok = FALSE.
RECURSIVE camel_parts(_)
camel_parts(parts) ==
    IF parts = <<>> THEN <<>>
    ELSE Capitalize(parts[1]) \o camel_parts(Tail(parts))

camelCase(string, splitter) ==
    LET parts == Split(string, splitter)
    IN  [ ok |-> \A i \in 2..Len(parts) : parts[i] # <<>>,
          value |-> parts[1] \o camel_parts(Tail(parts)) ]

\* the normalized name of a search parameter (lines 274-279)
normalize_name(orig) ==
    LET name == strip_name(orig)
    IN  IF Contains(name, <<"-">>)
        THEN IF search_generate_camelcase
             THEN camelCase(name, "-")
             ELSE [ok |-> TRUE, value |-> Replace(name, <<"-">>, <<"_">>)]
        ELSE [ok |-> TRUE, value |-> name]

\* '{}|{}|{}'.format(name, orig, tp) (line 281)
format_param(name, orig, tp) == name \o <<"|">> \o orig \o <<"|">> \o tp

\* the search parameters of one profile (lines 266-282): the set of the
\* formatted parameters, the set of the supported names, and whether
\* every name could be normalized.
RECURSIVE profile_params(_)
profile_params(params) ==
    IF params = <<>>
    THEN [ok |-> TRUE, search_params |-> {}, supported |-> {}]
    ELSE LET param == params[1]
             rest == profile_params(Tail(params))
             nm == normalize_name(param.name)
         IN  IF param.name # <<>> /\ param.type # <<>>
             THEN [ ok |-> nm.ok /\ rest.ok,
                    search_params |-> {format_param(nm.value, param.name,
                                                    param.type)}
                                      \cup rest.search_params,
                    supported |-> {nm.value} \cup rest.supported ]
             ELSE rest

\* the supporting profiles of parse (lines 113-117)
add_supporting(in_prof, supported, profile_name) ==
    [spp \in (DOMAIN in_prof) \cup supported |->
        IF spp \in supported
        THEN Get(in_prof, spp, {}) \cup {profile_name}
        ELSE in_prof[spp]]

\* sorted(params) of a set of str
RECURSIVE SortSet(_)
SortSet(strs) ==
    IF strs = {} THEN <<>>
    ELSE LET least == CHOOSE s \in strs :
                          \A t \in strs \ {s} : StrLess(s, t)
         IN  <<least>> \o SortSet(strs \ {least})

\* the loop of process_search over the sorted parameters (lines 409-416);
\* a parameter that does not split into three parts raises ValueError,
\* returned here as ok = FALSE.
RECURSIVE merge_params(_, _, _)
merge_params(params, extensions, dupes) ==
    IF params = <<>>
    THEN [ok |-> TRUE, extensions |-> extensions, dupes |-> dupes]
    ELSE LET parts == Split(params[1], "|")
         IN  IF Len(parts) # 3
             THEN [ok |-> FALSE, extensions |-> extensions, dupes |-> dupes]
             ELSE LET finalname == Get(reservedmap, parts[1], parts[1])
                      seen == \E i \in 1..Len(extensions) :
                                  extensions[i].name = finalname
                  IN  merge_params(
                          Tail(params),
                          Append(extensions,
                                 [name |-> finalname, original |-> parts[2],
                                  type |-> parts[3]]),
                          IF seen THEN dupes \cup {finalname} ELSE dupes)

process_search(params) == merge_params(SortSet(params), <<>>, {})

\* ------------------------------------------------ example conformance matcher

\* An example value is [t |-> "str", v |-> text], [t |-> "num", v |-> n],
\* [t |-> "null", v |-> 0], [t |-> "list", v |-> values] or
\* [t |-> "map", v |-> items], items a sequence of [key, val] in document
\* order.

subclassmap == (<<"A">> :> <<"P">>)

\* str(i) of a natural number
RECURSIVE IntStr(_)
IntStr(i) ==
    IF i < 10 THEN <<Ascii[Ord("0") + i]>>
    ELSE IntStr(i \div 10) \o <<Ascii[Ord("0") + (i % 10)]>>

\* unittest_format_path_key, _index and _prepare
format_path_key(prefix, key) == prefix \o <<".">> \o key
format_path_index(path, i) == path \o <<"[">> \o IntStr(i) \o <<"]">>
format_path_prepare(path) == path

\* props of process_unittest_properties (lines 503-505): a later property
\* of the same name replaces an earlier one
RECURSIVE props_by_name(_, _)
props_by_name(properties, props) ==
    IF properties = <<>> THEN props
    ELSE props_by_name(Tail(properties),
                       Put(props, properties[1].name, properties[1]))

\* value.replace("\n", "\\n") of a str value (line 548)
escape_value(value) ==
    IF value.t = "str"
    THEN [value EXCEPT !.v = Replace(@, <<"\n">>, <<"\\", "n">>)]
    ELSE value

RECURSIVE process_unittest_properties(_, _, _, _)
RECURSIVE handle_unittest_property(_, _, _, _)
RECURSIVE handle_unittest_list(_, _, _, _, _)

\* handle_unittest_property (lines 530-550); the assertion on a None value
\* (line 532) is returned as ok = FALSE.
handle_unittest_property(path, value, klass, classes) ==
    IF value.t = "null" THEN [ok |-> FALSE, tests |-> <<>>]
    ELSE IF value.t = "map"
    THEN LET target == Get(subclassmap, klass, klass)
         IN  IF target \notin DOMAIN classes
             THEN [ok |-> TRUE, tests |-> <<>>]
             ELSE process_unittest_properties(value.v, classes[target],
                                              classes, path)
    ELSE [ ok |-> TRUE,
           tests |-> <<[path |-> path, class |-> klass,
                        value |-> escape_value(value)]>> ]

\* the loop over the elements of an array value (lines 519-523)
handle_unittest_list(path, vals, i, klass, classes) ==
    IF vals = <<>> THEN [ok |-> TRUE, tests |-> <<>>]
    ELSE LET first == handle_unittest_property(format_path_index(path, i),
                                               vals[1], klass, classes)
         IN  IF ~first.ok THEN first
             ELSE LET rest == handle_unittest_list(path, Tail(vals), i + 1,
                                                   klass, classes)
                  IN  [ok |-> rest.ok, tests |-> first.tests \o rest.tests]

\* process_unittest_properties (lines 497-527); prefix is None at the top
process_unittest_properties(utest, klass, classes, prefix) ==
    IF utest = <<>> THEN [ok |-> TRUE, tests |-> <<>>]
    ELSE LET key == utest[1].key
             val == utest[1].val
             props == props_by_name(klass.properties, EmptyDict)
             path == IF prefix # None /\ prefix # <<>>
                     THEN format_path_key(prefix, key) ELSE key
             first ==
                 IF key \notin DOMAIN props
                 THEN [ok |-> TRUE, tests |-> <<>>]
                 ELSE IF val.t = "list"
                 THEN handle_unittest_list(path, val.v, 0,
                                           props[key].className, classes)
                 ELSE handle_unittest_property(format_path_prepare(path), val,
                                               props[key].className, classes)
         IN  IF ~first.ok THEN first
             ELSE LET rest == process_unittest_properties(Tail(utest), klass,
                                                          classes, prefix)
                  IN  [ok |-> rest.ok, tests |-> first.tests \o rest.tests]

\* sorted(tests, key=path): a stable insertion sort
RECURSIVE InsertByPath(_, _)
InsertByPath(sorted, test) ==
    IF sorted = <<>> THEN <<test>>
    ELSE IF StrLess(test.path, sorted[1].path) THEN <<test>> \o sorted
    ELSE <<sorted[1]>> \o InsertByPath(Tail(sorted), test)

RECURSIVE SortByPath(_)
SortByPath(tests) ==
    IF tests = <<>> THEN <<>>
    ELSE InsertByPath(SortByPath(SubSeq(tests, 1, Len(tests) - 1)),
                      tests[Len(tests)])

\* process_unittest (lines 468-494) of a document [resourceType, items]:
\* outcome is the assertion that fails, if one does, "skip" when there is
\* no class for the document, "tests" otherwise.
process_unittest(utest, classes) ==
    IF utest.resourceType = None
    THEN [outcome |-> "AssertionError:482", className |-> None,
          tests |-> <<>>]
    ELSE IF utest.resourceType \notin DOMAIN classes
    THEN [outcome |-> "skip", className |-> None, tests |-> <<>>]
    ELSE LET r == process_unittest_properties(
                      utest.items, classes[utest.resourceType], classes, None)
         IN  IF r.ok
             THEN [ outcome |-> "tests", className |-> utest.resourceType,
                    tests |-> SortByPath(r.tests) ]
             ELSE [ outcome |-> "AssertionError:532", className |-> None,
                    tests |-> <<>> ]

\* ------------------------------------------------------------------ state

VARIABLES
    pc,             \* where parse() is: "version", "profiles", "elements",
                    \* "finish", "unittests", "done", "aborted"
    error,          \* the exception that ended the run, "none" while it runs
    diag,           \* the diagnostics printed (log0; log1 prints nothing at
                    \* loglevel 0)
    version,        \* parse: version
    all_classes,    \* parse: all_classes, class name -> class
    factories,      \* parse: factories
    search_params,  \* parse: search_params
    in_profiles,    \* parse: in_profiles, parameter name -> profile names
    nProfiles,      \* the profiles begun
    main,           \* process_profile: main
    superclass,     \* process_profile: superclass
    is_subclass,    \* process_profile: is_subclass
    classes,        \* process_profile: classes
    mapping,        \* process_profile: mapping, path -> index in classes
    elements,       \* process_profile: elements
    nElems,         \* the elements the loop over them has taken
    newklass,       \* process_profile: newklass as parse_elem returned it
    imports,        \* info['imports']
    extensions,     \* process_search: extensions
    dupes,          \* process_search: dupes
    all_tests,      \* process_unittests: all_tests, class name -> test lists
    nExamples,      \* the example documents taken
    call,           \* the arguments of the last process_elem_type call
    target          \* the class process_elem_type was called on

vars ==
    << pc, error, diag, version, all_classes, factories, search_params,
       in_profiles, nProfiles, main, superclass, is_subclass, classes,
       mapping, elements, nElems, newklass, imports, extensions, dupes,
       all_tests, nExamples, call, target >>

profileVars ==
    << main, superclass, is_subclass, classes, mapping, elements, nElems,
       newklass, imports >>
parseVars == << all_classes, factories, search_params, in_profiles >>
searchVars == << extensions, dupes >>
testVars == << all_tests, nExamples >>
typeVars == << call, target >>

\* ----------------------------------------------------------------- bounds

MaxProfiles == 2
MaxElems == 3
MaxExamples == 1
MaxProps == 3

\* ----------------------------------------------------------------- inputs

P == <<"P">>
A == <<"A">>
Q == <<"Q">>
One == <<"1">>
Star == <<"*">>
Profile == <<"P","r","o","f","i","l","e">>
Bundle == <<"B","u","n","d","l","e">>

Type(code) == [code |-> code, profile |-> None]
RefType(code, cls) == [code |-> code, profile |-> ProfilePrefix \o cls]
Definition(types, n_min, n_max) ==
    [types |-> types, n_min |-> n_min, n_max |-> n_max]
Element(path, definition) == [path |-> path, definition |-> definition]

ERoot == Element(P, <<Definition(<<Type(ResourceAlias)>>, 1, One)>>)
ERootNoDef == Element(P, <<>>)
EName == Element(<<"P",".","n">>, <<Definition(<<Type(TString)>>, 1, One)>>)
ENameTwo ==
    Element(<<"P",".","n">>,
            <<Definition(<<Type(TString), Type(TCoding)>>, 0, Star)>>)
EValue ==
    Element(<<"P",".","v","[","x","]">>,
            <<Definition(<<Type(Wildcard)>>, 0, One)>>)
EValueRef ==
    Element(<<"P",".","v","[","x","]">>,
            <<Definition(<<RefType(ResourceReference, Q),
                           RefType(ResourceReference, A),
                           Type(TString)>>, 0, One)>>)
EContact == Element(<<"P",".","c">>, <<Definition(<<>>, 0, Star)>>)
EContactName ==
    Element(<<"P",".","c",".","n">>, <<Definition(<<Type(TCoding)>>, 0, One)>>)
EFor == Element(<<"P",".","f","o","r">>, <<Definition(<<Type(TString)>>, 0, One)>>)
ELanguage ==
    Element(<<"P",".","l","a","n","g","u","a","g","e">>,
            <<Definition(<<Type(TString)>>, 0, One)>>)


ENested == Element(<<"P",".","c",".","d">>, <<Definition(<<>>, 0, One)>>)

Elements ==
    { ERoot, ERootNoDef, EName, ENameTwo, EValue, EValueRef, EContact,
      EContactName, ENested, EFor, ELanguage }
RunElements == { ERoot, ERootNoDef, EName }

\* the element lists of at most MaxElems elements of a set
ElementLists(of) == UNION { [1..n -> of] : n \in 0..MaxElems }

Structure(type, name, element) ==
    [type |-> type, name |-> name, element |-> element]
ProfileDoc(resourceType, structure) ==
    [resourceType |-> resourceType, structure |-> structure]

\* the profile documents over a set of elements, of the given types and
\* names, with a profile without structure and a document that is no
\* profile
Profiles(shapes, of) ==
    { ProfileDoc(Profile, <<Structure(shape[1], shape[2], element)>>) :
          shape \in shapes, element \in ElementLists(of) }
    \cup { ProfileDoc(Profile, <<>>),
           ProfileDoc(Bundle, <<Structure(P, None, <<>>)>>) }

VersionTexts ==
    { <<"F","h","i","r","V","e","r","s","i","o","n","=","1">>,
      <<"v","=","1">> }

\* ---------------------------------------------------------------- actions

FhirVersion == <<"F","h","i","r","V","e","r","s","i","o","n">>

\* the version of version.info (lines 75-82): None when no line sets it;
\* a line with two '=' does not unpack into (n, v) and raises ValueError.
RECURSIVE scan_version(_, _)
scan_version(lines, found) ==
    IF lines = <<>> THEN [ok |-> TRUE, version |-> found]
    ELSE IF Contains(lines[1], <<"=">>)
    THEN LET nv == Split(lines[1], "=")
         IN  IF Len(nv) # 2 THEN [ok |-> FALSE, version |-> found]
             ELSE scan_version(Tail(lines),
                               IF nv[1] = FhirVersion THEN nv[2] ELSE found)
    ELSE scan_version(Tail(lines), found)

read_version(text) == scan_version(Split(text, "\n"), None)

Abort(cause) ==
    /\ pc' = "aborted"
    /\ error' = cause

\* parse, lines 74-91
ReadVersion(text) ==
    /\ pc = "version"
    /\ LET r == read_version(text)
       IN  IF ~r.ok THEN Abort("ValueError:80") /\ UNCHANGED version
           ELSE IF r.version = None
           THEN Abort("AssertionError:84") /\ UNCHANGED version
           ELSE pc' = "profiles" /\ version' = r.version /\ UNCHANGED error
    /\ UNCHANGED << diag, nProfiles, profileVars, parseVars, searchVars,
                    testVars, typeVars >>

\* process_profile, lines 144-191: the profile is read and its loop begins
BeginProfile(profile) ==
    /\ pc = "profiles"
    /\ nProfiles < MaxProfiles
    /\ IF profile.resourceType # Profile
       THEN /\ Abort("AssertionError:152")
            /\ UNCHANGED << diag, nProfiles, profileVars >>
       ELSE IF Len(profile.structure) = 0
       THEN /\ diag' = diag \cup {"no structure"}
            /\ nProfiles' = nProfiles + 1
            /\ main' = None
            /\ superclass' = None
            /\ is_subclass' = FALSE
            /\ classes' = <<>>
            /\ mapping' = EmptyDict
            /\ elements' = <<>>
            /\ nElems' = 0
            /\ newklass' = <<>>
            /\ imports' = <<>>
            /\ UNCHANGED << pc, error >>
       ELSE LET structure == profile.structure[1]
            IN  /\ pc' = "elements"
                /\ nProfiles' = nProfiles + 1
                /\ superclass' = structure.type
                /\ main' = IF structure.name = None THEN structure.type
                           ELSE structure.name
                /\ is_subclass' = (structure.name # None
                                   /\ structure.name # structure.type)
                /\ classes' = <<>>
                /\ mapping' = EmptyDict
                /\ elements' = structure.element
                /\ nElems' = 0
                /\ newklass' = <<>>
                /\ imports' = <<>>
                /\ UNCHANGED << error, diag >>
    /\ UNCHANGED << version, parseVars, searchVars, testVars, typeVars >>

\* the class a new class becomes in process_profile (lines 217-228)
adopt(klass, elem_path) ==
    IF elem_path = main THEN [klass EXCEPT !.resourceName = main]
    ELSE IF is_subclass THEN as_subclass(klass, main, superclass)
    ELSE klass

\* element_outcome that takes a missing definition for a skipped property
element_outcome_silent(name, element) ==
    IF name \in skip_properties \/ element.definition = <<>> THEN "skip"
    ELSE "compile"

\* what the loop of process_profile does with an element (lines 199-206):
\* a skipped property and a missing definition both continue with the
\* next element, the second after a diagnostic
element_outcome(name, element) ==
    IF name \in skip_properties THEN "skip"
    ELSE IF element.definition = <<>> THEN "no definition"
    ELSE "compile"

\* process_profile, one iteration of the loop over the elements
\* (lines 193-229)
CompileElement ==
    /\ pc = "elements"
    /\ nElems < Len(elements)
    /\ nElems' = nElems + 1
    /\ LET element == elements[nElems + 1]
           elem_path == element.path
           name == elem_name(elem_path)
           k == Get(mapping, class_path(elem_path), 0)
           outcome == element_outcome(name, element)
       IN  IF outcome = "skip"
           THEN UNCHANGED << pc, diag, classes, mapping, newklass >>
           ELSE IF outcome = "no definition"
           THEN /\ diag' = diag \cup {"no definition"}
                /\ UNCHANGED << pc, classes, mapping, newklass >>
           ELSE LET r == parse_elem(elem_path, name, element.definition[1],
                                    IF k = 0 THEN <<>> ELSE <<classes[k]>>)
                    owned == IF k = 0 THEN classes
                             ELSE [classes EXCEPT ![k] = r.klass[1]]
                IN  /\ newklass' = r.newklass
                    /\ diag' = diag
                    /\ IF r.newklass = <<>>
                       THEN /\ classes' = owned
                            /\ UNCHANGED << pc, mapping >>
                       ELSE /\ classes' =
                                  Append(owned, adopt(r.newklass[1], elem_path))
                            /\ mapping' = Put(mapping, r.newklass[1].path,
                                              Len(owned) + 1)
                            /\ pc' = IF elem_path # main /\ is_subclass
                                     THEN "finish" ELSE "elements"
    /\ UNCHANGED << error, version, nProfiles, main, superclass, is_subclass,
                    elements, imports, parseVars, searchVars, testVars,
                    typeVars >>

\* process_profile from the end of its loop (lines 231-284) and what parse
\* does with its result (lines 101-117)
FinishProfile(params) ==
    /\ pc = "finish" \/ (pc = "elements" /\ nElems = Len(elements))
    /\ imports' = resolve_imports(classes)
    /\ LET r == profile_params(params)
       IN  IF ~r.ok
           THEN /\ Abort("IndexError:584")
                /\ UNCHANGED parseVars
           ELSE /\ pc' = "profiles"
                /\ factories' = factories \cup {main}
                /\ all_classes' = register_all(all_classes, classes)
                /\ search_params' = search_params \cup r.search_params
                /\ in_profiles' = add_supporting(in_profiles, r.supported, main)
                /\ UNCHANGED error
    /\ UNCHANGED << diag, version, nProfiles, main, superclass, is_subclass,
                    classes, mapping, elements, nElems, newklass, searchVars,
                    testVars, typeVars >>

\* parse, lines 119-131: the profiles are exhausted (the variables of the
\* last process_profile call are gone); process_search
ProcessSearch ==
    /\ pc = "profiles"
    /\ LET r == process_search(search_params)
       IN  IF ~r.ok
           THEN Abort("ValueError:410") /\ UNCHANGED searchVars
           ELSE /\ pc' = "unittests"
                /\ extensions' = r.extensions
                /\ dupes' = r.dupes
                /\ UNCHANGED error
    /\ main' = None
    /\ superclass' = None
    /\ is_subclass' = FALSE
    /\ classes' = <<>>
    /\ mapping' = EmptyDict
    /\ elements' = <<>>
    /\ nElems' = 0
    /\ newklass' = <<>>
    /\ imports' = <<>>
    /\ UNCHANGED << diag, version, nProfiles, parseVars, testVars, typeVars >>

\* process_unittests, one iteration of the loop over the example documents
\* (lines 433-445)
ProcessUnittest(utest) ==
    /\ pc = "unittests"
    /\ nExamples < MaxExamples
    /\ LET r == process_unittest(utest, all_classes)
       IN  IF r.outcome \notin {"skip", "tests"}
           THEN Abort(r.outcome) /\ UNCHANGED << diag, testVars >>
           ELSE /\ nExamples' = nExamples + 1
                /\ UNCHANGED << pc, error >>
                /\ IF r.outcome = "skip"
                   THEN /\ diag' = diag \cup {"no class"}
                        /\ UNCHANGED all_tests
                   ELSE /\ all_tests' =
                              Put(all_tests, r.className,
                                  Append(Get(all_tests, r.className, <<>>),
                                         r.tests))
                        /\ UNCHANGED diag
    /\ UNCHANGED << version, nProfiles, profileVars, parseVars, searchVars,
                    typeVars >>

\* process_unittests, lines 447-465: the examples are exhausted and the
\* tests are rendered; parse returns
Finish ==
    /\ pc = "unittests"
    /\ pc' = "done"
    /\ UNCHANGED << error, diag, version, nProfiles, profileVars, parseVars,
                    searchVars, testVars, typeVars >>

Init ==
    /\ pc = "version"
    /\ error = "none"
    /\ diag = {}
    /\ version = None
    /\ all_classes = EmptyDict
    /\ factories = {}
    /\ search_params = {}
    /\ in_profiles = EmptyDict
    /\ nProfiles = 0
    /\ main = None
    /\ superclass = None
    /\ is_subclass = FALSE
    /\ classes = <<>>
    /\ mapping = EmptyDict
    /\ elements = <<>>
    /\ nElems = 0
    /\ newklass = <<>>
    /\ imports = <<>>
    /\ extensions = <<>>
    /\ dupes = {}
    /\ all_tests = EmptyDict
    /\ nExamples = 0
    /\ call = <<>>
    /\ target = <<>>

Param(name, type) == [name |-> name, type |-> type]
Example(resourceType, items) == [resourceType |-> resourceType, items |-> items]
Item(key, val) == [key |-> key, val |-> val]
StrVal(text) == [t |-> "str", v |-> text]
NullVal == [t |-> "null", v |-> 0]
ListVal(vals) == [t |-> "list", v |-> vals]
MapVal(items) == [t |-> "map", v |-> items]

Token == <<"t","o","k","e","n">>

RunParams == { <<Param(<<"a","-","b">>, Token)>> }
RunExamples ==
    { Example(P, <<Item(<<"n">>, StrVal(<<"x">>))>>),
      Example(P, <<Item(<<"n">>, NullVal)>>),
      Example(Q, <<>>) }

\* the type and the name of a structure: a resource, a resource that names
\* itself and a named subclass
Shapes == { <<P, None>>, <<P, P>>, <<P, A>> }

RunProfiles == Profiles(Shapes, RunElements)
\* with them, the profiles of type Q named P: named subclasses whose
\* elements are rooted at the name of the profile
AllProfiles == Profiles(Shapes \cup { <<Q, P>> }, Elements)

\* The run of parse(): every profile, then the search parameters, then
\* the example documents.
Next ==
    \/ \E text \in VersionTexts : ReadVersion(text)
    \/ pc = "profiles" /\ \E profile \in RunProfiles : BeginProfile(profile)
    \/ CompileElement
    \/ \E params \in RunParams : FinishProfile(params)
    \/ ProcessSearch
    \/ \E utest \in RunExamples : ProcessUnittest(utest)
    \/ Finish

Spec == Init /\ [][Next]_vars

\* The compilation of one profile, over every kind of element.
NextProfile ==
    \/ \E text \in VersionTexts : ReadVersion(text)
    \/ pc = "profiles" /\ nProfiles = 0
       /\ \E profile \in AllProfiles : BeginProfile(profile)
    \/ CompileElement
    \/ FinishProfile(<<>>)

SpecProfile == Init /\ [][NextProfile]_vars

\* The search parameters of the profiles, over every kind of name; the
\* profiles have no elements.
MaxParams == 2

SearchNames ==
    { <<"a","b">>, <<"a",".","b">>, <<"a","|","b">>, <<"a","-","b">>,
      <<"a","-">>, <<"f","o","r">> }
SearchParams ==
    UNION { [1..n -> {Param(name, Token) : name \in SearchNames}] :
                n \in 0..MaxParams }
SearchProfiles == Profiles(Shapes, {})

NextSearch ==
    \/ \E text \in VersionTexts : ReadVersion(text)
    \/ pc = "profiles" /\ \E profile \in SearchProfiles : BeginProfile(profile)
    \/ \E params \in SearchParams : FinishProfile(params)
    \/ ProcessSearch

SpecSearch == Init /\ [][NextSearch]_vars

\* process_elem_type alone, called on a class under construction.
Call(name, type, n_min, n_max) ==
    [name |-> name, tp |-> type.code, ref |-> type.profile,
     n_min |-> n_min, n_max |-> n_max]

TypeArgs ==
    { Type(Wildcard), Type(TString), Type(TCoding),
      RefType(ResourceReference, Q) }
Calls ==
    { Call(<<"n">>, type, 1, One) : type \in TypeArgs }
    \cup { Call(<<"v","[","x","]">>, type, 0, Star) : type \in TypeArgs }
    \cup { Call(<<"f","o","r">>, type, 0, One) : type \in TypeArgs }

ProcessElemType(c) ==
    /\ pc = "type"
    /\ Len(target[1].properties) < MaxProps
    /\ call' = <<c>>
    /\ target' = <<process_elem_type(target[1], c.name, c.tp, c.ref,
                                      c.n_min, c.n_max)>>
    /\ UNCHANGED << pc, error, diag, version, nProfiles, profileVars,
                    parseVars, searchVars, testVars >>

InitType ==
    /\ pc = "type"
    /\ error = "none"
    /\ diag = {}
    /\ version = None
    /\ all_classes = EmptyDict
    /\ factories = {}
    /\ search_params = {}
    /\ in_profiles = EmptyDict
    /\ nProfiles = 0
    /\ main = None
    /\ superclass = None
    /\ is_subclass = FALSE
    /\ classes = <<>>
    /\ mapping = EmptyDict
    /\ elements = <<>>
    /\ nElems = 0
    /\ newklass = <<>>
    /\ imports = <<>>
    /\ extensions = <<>>
    /\ dupes = {}
    /\ all_tests = EmptyDict
    /\ nExamples = 0
    /\ call = <<>>
    /\ target = <<new_class(P, <<>>)>>

NextType == \E c \in Calls : ProcessElemType(c)

SpecType == InitType /\ [][NextType]_vars

\* ----------------------------------------------------------------- claims

\* C1: the class registry is first-write-wins.  No step changes or removes
\* an entry the registry holds; a name that enters the registry enters
\* with the first class of that name of the profile being finished; and
\* when a profile is finished every class name it produced is registered.
C1_FirstWriteWins ==
    [][ /\ \A cn \in DOMAIN all_classes :
              cn \in DOMAIN all_classes' /\ all_classes'[cn] = all_classes[cn]
        /\ \A cn \in (DOMAIN all_classes') \ (DOMAIN all_classes) :
              \E i \in 1..Len(classes) :
                  /\ classes[i].className = cn
                  /\ \A j \in 1..(i - 1) : classes[j].className # cn
                  /\ all_classes'[cn] = classes[i]
        /\ (pc \in {"elements", "finish"} /\ pc' = "profiles")
              => \A i \in 1..Len(classes) :
                     classes[i].className \in DOMAIN all_classes' ]_vars

\* C1, witness: the second profile produced a class whose name the first
\* profile had registered with another content, and the registry still
\* holds the first.
C1_Witness ==
    /\ pc = "profiles"
    /\ nProfiles = 2
    /\ \E i \in 1..Len(classes) :
           /\ classes[i].className \in DOMAIN all_classes
           /\ all_classes[classes[i].className] # classes[i]

\* C2: within every class, the property names are unique.
C2_UniqueNames ==
    \A i \in 1..Len(classes) :
        \A a, b \in 1..Len(classes[i].properties) :
            a # b => classes[i].properties[a].name
                     # classes[i].properties[b].name

\* the names the classes of the profile refer to: superclasses, property
\* classes and reference targets
RefNames ==
    UNION { {classes[i].superclass}
            \cup { classes[i].properties[a].className :
                       a \in 1..Len(classes[i].properties) }
            \cup { classes[i].properties[a].isReferenceTo :
                       a \in { b \in 1..Len(classes[i].properties) :
                                 classes[i].properties[b].isReferenceTo # None } }
            : i \in 1..Len(classes) }
InlineNames == { classes[i].className : i \in 1..Len(classes) }

\* C3: the import list of a compiled profile holds no native type name and
\* no name of a class of the profile, is sorted ascending without
\* duplicates, and holds every superclass, property class and reference
\* target of the profile's classes that is neither native nor inline.
C3_Imports ==
    (pc = "profiles" /\ main # None) =>
        /\ \A i \in 1..Len(imports) :
               imports[i] \notin natives /\ imports[i] \notin InlineNames
        /\ \A i, j \in 1..Len(imports) :
               i < j => StrLess(imports[i], imports[j])
        /\ { imports[i] : i \in 1..Len(imports) }
               = { n \in RefNames : n \notin natives /\ n \notin InlineNames }

\* C3, witness: a compiled profile with a native property class, a
\* property of an inline class and a reference target, and several imports.
C3_Witness ==
    /\ pc = "profiles"
    /\ main # None
    /\ Len(imports) >= 3
    /\ \E n \in RefNames : n \in natives
    /\ \E n \in RefNames : n \in InlineNames
    /\ \E i \in 1..Len(classes) : \E a \in 1..Len(classes[i].properties) :
           /\ classes[i].properties[a].isReferenceTo # None
           /\ \E k \in 1..Len(imports) :
                  imports[k] = classes[i].properties[a].isReferenceTo

\* the names expected of the choice element v[x], type by type
ValueX == <<"v","[","x","]">>
ExpectedChoice ==
    (TString :> <<"v","S","t","r","i","n","g">>)
    @@ (TCoding :> <<"v","C","o","d","i","n","g">>)
    @@ (ResourceReference :> <<"v","R","e","s","o","u","r","c","e">>)
ExpectedName(name, tp) == IF name = ValueX THEN ExpectedChoice[tp] ELSE name

\* C4: a call of process_elem_type with the wildcard type appends to the
\* class exactly one property per entry of starexpandtypes, in the order
\* of the list, each with the name of the element for that entry and the
\* class the entry resolves to through classmap, and none for '*' itself.
C4_WildcardExpansion ==
    [][ (call' # <<>> /\ call'[1].tp = Wildcard /\ target' # target) =>
            LET before == target[1].properties
                after == target'[1].properties
            IN  /\ Len(after) = Len(before) + Len(starexpandtypes)
                /\ SubSeq(after, 1, Len(before)) = before
                /\ \A i \in 1..Len(starexpandtypes) :
                       LET prop == after[Len(before) + i]
                           entry == starexpandtypes[i]
                       IN  /\ prop.orig_name
                                = ExpectedName(call'[1].name, entry)
                           /\ prop.className
                                = (IF entry \in DOMAIN classmap
                                   THEN classmap[entry] ELSE entry)
                           /\ prop.className # Wildcard ]_vars

\* C4, witness: the wildcard element v[x] was expanded onto a class that
\* had a property, into vString and vCoding.
C4_Witness ==
    /\ pc = "type"
    /\ call # <<>>
    /\ call[1].tp = Wildcard
    /\ call[1].name = ValueX
    /\ Len(target[1].properties) = 3
    /\ target[1].properties[2].name = <<"v","S","t","r","i","n","g">>
    /\ target[1].properties[2].className = CString
    /\ target[1].properties[3].name = <<"v","C","o","d","i","n","g">>
    /\ target[1].properties[3].className = TCoding

\* C5: a call of process_elem_type with a type T that is not the wildcard
\* appends one property; when the name holds '[x]' the property is named
\* by the name with '[x]' replaced by T, first letter upper-cased, and by
\* 'Resource' when T is 'ResourceReference'; a name without '[x]' is kept.
C5_ChoiceName ==
    [][ (call' # <<>> /\ call'[1].tp # Wildcard /\ target' # target) =>
            LET before == target[1].properties
                after == target'[1].properties
                expected == ExpectedName(call'[1].name, call'[1].tp)
            IN  /\ Len(after) = Len(before) + 1
                /\ SubSeq(after, 1, Len(before)) = before
                /\ after[Len(after)].orig_name = expected
                /\ after[Len(after)].name
                       = (IF expected \in DOMAIN reservedmap
                          THEN reservedmap[expected] ELSE expected) ]_vars

\* C5, witness: the choice element v[x] was given the reference type and
\* the lower-case type string, and the properties are vResource and vString.
C5_Witness ==
    /\ pc = "type"
    /\ call # <<>>
    /\ call[1].name = ValueX
    /\ call[1].tp = TString
    /\ Len(target[1].properties) = 2
    /\ target[1].properties[1].name = <<"v","R","e","s","o","u","r","c","e">>
    /\ target[1].properties[1].className = ResourceReference
    /\ target[1].properties[2].name = <<"v","S","t","r","i","n","g">>

\* the declaration a formatted search parameter stands for: the name holds
\* no '|' (strip_name removes it), the type is the last part
Declaration(param) ==
    LET parts == Split(param, "|")
    IN  [ name |-> parts[1],
          orig |-> Join(SubSeq(parts, 2, Len(parts) - 1), <<"|">>),
          type |-> parts[Len(parts)] ]
Declarations == { Declaration(param) : param \in search_params }

\* the normalized names declared with two different original names
Collisions ==
    { a.name : a \in { d \in Declarations :
                         \E e \in Declarations :
                             e.name = d.name /\ e.orig # d.orig } }

\* C6: when the profiles declared two different original names of the same
\* normalized name, process_search completes, flags exactly the colliding
\* names, once each, keeps every original name in the merged table, and
\* the name has its supporting profiles.
C6_CollisionFlagged ==
    (Collisions # {} /\ (pc = "unittests" \/ error = "ValueError:410")) =>
        /\ pc = "unittests"
        /\ error = "none"
        /\ dupes = Collisions
        /\ \A d \in Declarations :
               d.name \in Collisions =>
                   \E i \in 1..Len(extensions) :
                       /\ extensions[i].original = d.orig
                       /\ extensions[i].name = d.name
        /\ \A n \in Collisions :
               /\ n \in DOMAIN in_profiles
               /\ in_profiles[n] # {}
               /\ in_profiles[n] \subseteq factories

\* C7: a profile named differently from its type, whose element list starts
\* with the root element, ends with exactly one class: the root element's,
\* renamed to the profile's name, with the declared type as superclass, the
\* named-subclass marker and no property; no element after the root is
\* compiled.
C7_NamedSubclass ==
    ( /\ pc = "profiles"
      /\ is_subclass
      /\ Len(elements) >= 1
      /\ elements[1].path = superclass ) =>
        /\ nElems = 1
        /\ Len(classes) = 1
        /\ classes[1].path = superclass
        /\ classes[1].className = main
        /\ classes[1].superclass = superclass
        /\ classes[1].is_subclass
        /\ classes[1].properties = <<>>

\* the class names expected of the elements without declared type
ExpectedClassName ==
    (EContact.path :> <<"P","C">>) @@ (ENested.path :> <<"P","C","D">>)

\* a sequence without its i-th entry
Without(seq, i) == SubSeq(seq, 1, i - 1) \o SubSeq(seq, i + 1, Len(seq))

\* C8: when process_profile compiles an element whose parent path maps to
\* a class: without declared type, parse_elem returns a new class named
\* after the capitalized path segments, with the default base superclass
\* and no property, the class is appended and registered under the path of
\* the element, and the parent class gains exactly one property, of the
\* class name of the new class; with a declared type no class is returned,
\* appended or registered.
C8_InlineSubtype ==
    [][ ( /\ pc = "elements"
          /\ nElems' = nElems + 1
          /\ elem_name(elements[nElems + 1].path) \notin skip_properties
          /\ elements[nElems + 1].definition # <<>>
          /\ Get(mapping, class_path(elements[nElems + 1].path), 0) # 0 ) =>
            LET element == elements[nElems + 1]
                path == element.path
                k == Get(mapping, class_path(path), 0)
                before == classes[k].properties
                after == classes'[k].properties
            IN  IF element.definition[1].types = <<>>
                THEN /\ Len(newklass') = 1
                     /\ newklass'[1].path = path
                     /\ newklass'[1].className = ExpectedClassName[path]
                     /\ newklass'[1].superclass = resource_default_base
                     /\ newklass'[1].properties = <<>>
                     /\ Len(classes') = Len(classes) + 1
                     /\ classes'[Len(classes')].path = path
                     /\ classes'[Len(classes')].properties = <<>>
                     /\ Get(mapping', path, 0) = Len(classes')
                     /\ \A other \in DOMAIN mapping :
                            other # path => mapping'[other] = mapping[other]
                     /\ \E i \in 1..Len(after) :
                            /\ Without(after, i) = before
                            /\ after[i].className = ExpectedClassName[path]
                            /\ after[i].name = elem_name(path)
                ELSE /\ newklass' = <<>>
                     /\ Len(classes') = Len(classes)
                     /\ mapping' = mapping ]_vars

\* C8, witness: P.c, without declared type, was compiled after the root
\* element: class PC is registered under P.c and class P has the property c
\* of class PC.
C8_Witness ==
    /\ pc = "elements"
    /\ nElems = 2
    /\ elements[1] = ERoot
    /\ elements[2] = EContact
    /\ Len(classes) = 2
    /\ classes[2].className = <<"P","C">>
    /\ classes[2].superclass = resource_default_base
    /\ Get(mapping, EContact.path, 0) = 2
    /\ Len(classes[1].properties) = 1
    /\ classes[1].properties[1].className = <<"P","C">>

\* the elements of the current profile that lack their definition and
\* are not skipped properties
Undocumented ==
    { j \in 1..Len(elements) :
          /\ elem_name(elements[j].path) \notin skip_properties
          /\ elements[j].definition = <<>> }

\* C9, as stated: once the loop of process_profile has met an element
\* without definition, it takes no further element of that profile.
C9_ProfileScoped ==
    \A j \in Undocumented : j <= nElems => nElems = j

\* C9: an element without definition is an element-scoped skip: the step
\* that takes it prints the diagnostic, leaves the classes and the mapping
\* of the profile alone, raises no error and continues the loop with the
\* next element.
C9_ElementScoped ==
    [][ ( /\ pc = "elements"
          /\ nElems' = nElems + 1
          /\ nElems + 1 \in Undocumented ) =>
            /\ "no definition" \in diag'
            /\ classes' = classes
            /\ mapping' = mapping
            /\ error' = error
            /\ all_classes' = all_classes
            /\ pc' = "elements" ]_vars

\* C9, witness: in the second profile of a run, the root element had no
\* definition, the diagnostic was printed and the element after it was
\* compiled into a class.
C9_Witness ==
    /\ nProfiles = 2
    /\ pc = "elements"
    /\ nElems = 2
    /\ 1 \in Undocumented
    /\ "no definition" \in diag
    /\ Len(classes) = 1
    /\ classes[1].path = elements[2].path

\* C10: the run is aborted by nothing but an unparseable version marker
\* (lines 80 and 84) and a profile document of the wrong kind (line 152).
C10_RunCompletes ==
    error \in {"none", "ValueError:80", "AssertionError:84",
               "AssertionError:152"}

\* ------------------------------------------------ the matcher on its own

NumVal(n) == [t |-> "num", v |-> n]

\* the profile the examples are matched against: class P with the array
\* property c of the inline class PC, class PC with the property n
TestProfile ==
    ProfileDoc(Profile, <<Structure(P, None, <<ERoot, EContact, EContactName>>)>>)

KeyC == <<"c">>
KeyN == <<"n">>
KeyZ == <<"z">>

\* example values: scalars, mappings of the key n, and sequences of at
\* most two scalars, mappings, nulls and sequences
TestScalars == { StrVal(<<"x">>), StrVal(<<"a","\n","b">>), NumVal(1) }
TestMaps ==
    { MapVal(<<>>) }
    \cup { MapVal(<<Item(KeyN, v)>>) :
              v \in TestScalars \cup { ListVal(<<w>>) : w \in TestScalars } }
TestEntries ==
    TestScalars \cup TestMaps \cup { NullVal, ListVal(<<StrVal(<<"x">>)>>) }
TestValues ==
    TestScalars \cup TestMaps \cup { NullVal }
    \cup { ListVal(vals) : vals \in UNION { [1..n -> TestEntries] : n \in 0..2 } }

TestExamples ==
    { Example(P, <<Item(key, val)>>) : key \in {KeyC, KeyZ}, val \in TestValues }
    \cup { Example(Q, <<>>), Example(None, <<>>) }

NextTest ==
    \/ \E text \in VersionTexts : ReadVersion(text)
    \/ pc = "profiles" /\ nProfiles = 0 /\ BeginProfile(TestProfile)
    \/ CompileElement
    \/ FinishProfile(<<>>)
    \/ nProfiles = 1 /\ ProcessSearch
    \/ \E utest \in TestExamples : ProcessUnittest(utest)
    \/ Finish

SpecTest == Init /\ [][NextTest]_vars

\* the assertions of all the examples matched so far
Assertions ==
    UNION { UNION { { all_tests[cn][i][j] : j \in 1..Len(all_tests[cn][i]) } :
                    i \in 1..Len(all_tests[cn]) } :
            cn \in DOMAIN all_tests }

\* C11: no assertion produced by matching an example document has a
\* sequence or a mapping as its value.
C11_TerminalScalars ==
    \A test \in Assertions : test.value.t \notin {"list", "map"}

\* a property list in ascending order of the names (equal names allowed)
Ascending(props) ==
    \A i \in 1..Len(props) : \A j \in 1..Len(props) :
        i < j => ~StrLess(props[j].name, props[i].name)

\* C12: between the elements of a profile, the property list of every
\* class of the path-to-class mapping is sorted ascending by the name of
\* the property.
C12_SortedProperties ==
    \A path \in DOMAIN mapping : Ascending(classes[mapping[path]].properties)

\* C12, witness: the choice element v[x] of the wildcard type and then the
\* element c were compiled into class P, whose properties are c, vCoding
\* and vString, neither the order of the elements nor that of the types.
C12_Witness ==
    /\ pc = "elements"
    /\ nElems = 3
    /\ elements = <<ERoot, EValue, EContact>>
    /\ Get(mapping, P, 0) = 1
    /\ Len(classes[1].properties) = 3
    /\ classes[1].properties[1].name = <<"c">>
    /\ classes[1].properties[2].name = <<"v","C","o","d","i","n","g">>
    /\ classes[1].properties[3].name = <<"v","S","t","r","i","n","g">>

====
